---- MODULE Spec2Model ----
(***************************************************************************)
(* Gophermart: order admission, the accrual poller (dispatcher + workers)  *)
(* and the ledger (users, orders, withdrawals) as a state machine.         *)
(*                                                                         *)
(* Money is modelled as integers.  Order numbers are the request strings,  *)
(* modelled as sequences of one-character strings, so that parsing         *)
(* (strconv.ParseInt) and the Luhn check are computed, not assumed.        *)
(***************************************************************************)
EXTENDS Integers, Sequences, FiniteSets, TLC

(***************************************************************************)
(* Bounds                                                                  *)
(***************************************************************************)
NumUsers == 2
NumReqs == 2
NumWorkers == 2
MaxBalance == 4
MaxNumber == 200
MaxTime == 1
MaxCalls == 2

(***************************************************************************)
(* Input domains                                                           *)
(***************************************************************************)
AllUsers == <<"user01", "user02", "testuser", "user04">>
Users == {AllUsers[i] : i \in 1..NumUsers}
Passwords == {"p"}
RegisterPasswords == {"p", "q"}
Reqs == 1..NumReqs
Workers == 1..NumWorkers

\* Request bodies for POST /api/user/orders and "order" of a withdrawal.
\* "18" and "26" pass the Luhn check, "19" fails it.
OrderBodies == {<<"1", "8">>, <<"2", "6">>, <<"1", "9">>}
\* Bodies that are not plain digit strings: no number at all, and signed ones.
RawBodies == {<<"x">>, <<"-", "0">>, <<"+", "1", "8">>}
Sums == {1, 2}
\* models.Withdrawal.Sum is a signed number: the JSON body may carry 0 or less.
SignedSums == {-1, 0}

\* What the Accrual service may answer (its protocol, spec section 6).
AccrualStatuses == {"REGISTERED", "PROCESSING", "INVALID", "PROCESSED"}
AccrualAmounts == {0, 2}

StatusOK == 200
StatusAccepted == 202
StatusBadRequest == 400
StatusPaymentRequired == 402
StatusConflict == 409
StatusUnprocessableEntity == 422
StatusInternalServerError == 500

(***************************************************************************)
(* helpers: strconv.ParseInt and the Luhn check                            *)
(***************************************************************************)
Digits == <<"0", "1", "2", "3", "4", "5", "6", "7", "8", "9">>

IsDigit(c) == \E i \in 1..10 : Digits[i] = c

DigitVal(c) == (CHOOSE i \in 1..10 : Digits[i] = c) - 1

\* Go's / and % truncate toward zero (here on the small values of cur and of
\* the digit sums).
GoDiv(a, b) == IF a >= 0 THEN a \div b ELSE 0 - ((0 - a) \div b)
GoMod(a, b) == a - b * GoDiv(a, b)

\* An int64 is kept as a sign and a magnitude of two decimal limbs, hi and lo,
\* of five digits each: order numbers such as 2377225624 pass 2^31.
LimbBase == 10 * 10 * 10 * 10 * 10

Int64(neg, hi, lo) == [neg |-> neg /\ (hi > 0 \/ lo > 0), hi |-> hi, lo |-> lo]

\* The int64 of a small integer.
ToInt64(n) == IF n >= 0 THEN Int64(FALSE, n \div LimbBase, n % LimbBase)
              ELSE Int64(TRUE, (0 - n) \div LimbBase, (0 - n) % LimbBase)

\* number > 0
IsPositive(number) == ~number.neg /\ (number.hi > 0 \/ number.lo > 0)

\* number % 10: the last digit, with the sign of number.
Mod10(number) == IF number.neg THEN 0 - (number.lo % 10) ELSE number.lo % 10

\* number / 10: the magnitude without its last digit.
Div10(number) ==
    Int64(number.neg, number.hi \div 10,
          (number.hi % 10) * (LimbBase \div 10) + number.lo \div 10)

\* number * 10 + d, as the decimal parser accumulates it.
MulAdd10(number, d) ==
    Int64(number.neg, number.hi * 10 + number.lo \div (LimbBase \div 10),
          (number.lo % (LimbBase \div 10)) * 10 + d)

RECURSIVE DecVal(_)
DecVal(s) == IF s = <<>> THEN ToInt64(0)
             ELSE MulAdd10(DecVal(SubSeq(s, 1, Len(s) - 1)), DigitVal(s[Len(s)]))

\* strconv.ParseInt(s, 10, 64): optional sign, then at least one decimal digit.
ParseInt(s) ==
    LET signed == s # <<>> /\ Head(s) \in {"+", "-"}
        body   == IF signed THEN Tail(s) ELSE s
        mag    == DecVal(body)
    IN  IF body = <<>> \/ \E i \in 1..Len(body) : ~IsDigit(body[i])
        THEN [err |-> TRUE, val |-> ToInt64(0)]
        ELSE [err |-> FALSE,
              val |-> IF signed /\ Head(s) = "-" THEN Int64(TRUE, mag.hi, mag.lo)
                      ELSE mag]

RECURSIVE LuhnLoop(_, _, _)
LuhnLoop(number, i, luhn) ==
    IF IsPositive(number)
    THEN LET cur0 == Mod10(number)
             cur1 == IF i % 2 = 0
                     THEN (IF cur0 * 2 > 9
                           THEN GoMod(cur0 * 2, 10) + GoDiv(cur0 * 2, 10)
                           ELSE cur0 * 2)
                     ELSE cur0
         IN  LuhnLoop(Div10(number), i + 1, luhn + cur1)
    ELSE luhn

checksumLuhn(number) == GoMod(LuhnLoop(number, 0, 0), 10)

\* A check of the last digit alone.
ValidOrderNoChecksum(number) == Mod10(number) = 0

ValidOrder(number) == GoMod(Mod10(number) + checksumLuhn(Div10(number)), 10) = 0

\* The handlers' test: the body parses and passes the Luhn check.
\* A test that lets every body through.
AnyBody(body) == TRUE

ParsesAndValid(body) == LET p == ParseInt(body) IN ~p.err /\ ValidOrder(p.val)

\* The test is a function of the body alone: its value on the bodies the
\* requests carry is computed once.
AdmittedBodies == {body \in OrderBodies \cup RawBodies : ParsesAndValid(body)}

ValidOrderNumber(body) ==
    IF body \in OrderBodies \cup RawBodies THEN body \in AdmittedBodies
    ELSE ParsesAndValid(body)

(***************************************************************************)
(* State                                                                   *)
(***************************************************************************)
VARIABLES
    users,        \* table users:       rows [userid, password, accrual]
    orders,       \* table orders:      rows [userid, number, status, accrual]
    withdrawals,  \* table withdrawals: rows [userid, number, sum]
    req,          \* in-flight HTTP handlers, one per request slot
    ticker,       \* orderTicker: [pc, batch]
    inputCh,      \* the buffered channel between orderTicker and the workers
    wk,           \* getAccrualWorker: per worker [pc, order, ar]
    RetryFlag,    \* the shared atomic.Bool
    now,          \* time.Now(), in the seconds RFC3339 keeps
    luhnCall,     \* a direct call of helpers.ValidOrder: [number, calls, result]
    ctx,          \* Start: the context of the process-level error group
    egCtx,        \* OrderDispatcher: the context of its error group, child of ctx
    egErr,        \* OrderDispatcher: the first error a task of its group returned
    dispatcher,   \* OrderDispatcher: "wait" in eg.Wait(), then "returned"
    srv,          \* the http.Server: "serving", "shutdown" (draining), "closed"
    pool          \* the pgx connection pool of PostgresDB: "open" or "closed"

vars == <<users, orders, withdrawals, req, ticker, inputCh, wk, RetryFlag, now, luhnCall,
          ctx, egCtx, egErr, dispatcher, srv, pool>>

ledger == <<users, orders, withdrawals>>
poller == <<ticker, inputCh, wk, RetryFlag>>
life == <<ctx, egCtx, egErr, dispatcher, srv, pool>>
env == <<now, luhnCall, life>>

NoOrder == [userid |-> "", number |-> <<>>, status |-> "", accrual |-> 0, uploaded |-> 0]

\* err is the handler's err after its last ledger call: "" (nil), "unique"
\* (a uniqueness violation) or "db" (any other failure of the call).
IdleReq == [pc |-> "idle", op |-> "", user |-> "", number |-> <<>>, sum |-> 0,
            code |-> 0, err |-> "", body |-> <<>>]

\* No direct call of ValidOrder is under way.
NoCall == [number |-> ToInt64(0), calls |-> 0, result |-> FALSE]

\* ar is the worker's models.AccrualResponse, declared outside its loop.  Every
\* 200 body carries a status, so only ar.Accrual can survive from one
\* response to the next and only it is kept in the state.
IdleWorker == [pc |-> "recv", order |-> NoOrder, ar |-> [Accrual |-> 0]]

IdleTicker == [pc |-> "wait", batch |-> <<>>]

(***************************************************************************)
(* Ledger (PostgresDB): tables and statements                              *)
(***************************************************************************)
HashPassword(p) == <<"bcrypt", p>>

UserRow(userid) == CHOOSE u \in users : u.userid = userid

Registered == {u.userid : u \in users}

Balance(userid) == (UserRow(userid)).accrual

\* An insert that replaces the row of a userid already there.
DBUserAddReplace(tbl, userid, password) ==
    [err |-> "",
     users |-> {u \in tbl : u.userid # userid}
               \cup {[userid |-> userid, password |-> password, accrual |-> 0]}]

\* INSERT INTO users; userid is the primary key.
DBUserAdd(tbl, userid, password) ==
    IF \E u \in tbl : u.userid = userid
    THEN [err |-> "unique", users |-> tbl]
    ELSE [err |-> "",
          users |-> tbl \cup {[userid |-> userid, password |-> password, accrual |-> 0]}]

\* INSERT INTO orders ... ON CONFLICT (number) DO UPDATE.
DBOrderAddUpsert(tbl, userid, oid) ==
    [err |-> "",
     orders |-> {o \in tbl : o.number # oid}
                \cup {[userid |-> userid, number |-> oid, status |-> "NEW", accrual |-> 0,
                       uploaded |-> now]}]

\* INSERT INTO orders without the primary key on number.
DBOrderAddNoKey(tbl, userid, oid) ==
    [err |-> "",
     orders |-> tbl \cup {[userid |-> userid, number |-> oid, status |-> "NEW", accrual |-> 0,
                            uploaded |-> now]}]

\* INSERT INTO orders (userid, number, 'NEW', 0, now); number is the primary key.
DBOrderAdd(tbl, userid, oid) ==
    IF \E o \in tbl : o.number = oid
    THEN [err |-> "unique", orders |-> tbl]
    ELSE [err |-> "",
          orders |-> tbl \cup {[userid |-> userid, number |-> oid, status |-> "NEW", accrual |-> 0,
                            uploaded |-> now]}]

\* A pre-read that never finds the row.
DBOrderGetBlind(tbl, oid) == NoOrder

\* SELECT * FROM orders WHERE number=$1; no row gives the zero Order.
DBOrderGet(tbl, oid) ==
    IF \E o \in tbl : o.number = oid
    THEN CHOOSE o \in tbl : o.number = oid
    ELSE NoOrder

\* UPDATE users SET accrual = accrual + $1 WHERE userid=$2
DBUserAddAccrual(tbl, userid, amount) ==
    {IF u.userid = userid THEN [u EXCEPT !.accrual = @ + amount] ELSE u : u \in tbl}

\* The two statements without the rollback: a failed INSERT leaves the debit.
DBAccrualWithdrawNoRollback(utbl, wtbl, w) ==
    IF \E x \in wtbl : x.number = w.number
    THEN [err |-> "unique",
          users |-> DBUserAddAccrual(utbl, w.userid, 0 - w.sum),
          withdrawals |-> wtbl]
    ELSE [err |-> "",
          users |-> DBUserAddAccrual(utbl, w.userid, 0 - w.sum),
          withdrawals |-> wtbl \cup {[w EXCEPT !.processed = now]}]

\* The INSERT alone: the row is written and the balance is left as it was.
DBAccrualWithdrawNoDebit(utbl, wtbl, w) ==
    IF \E x \in wtbl : x.number = w.number
    THEN [err |-> "unique", users |-> utbl, withdrawals |-> wtbl]
    ELSE [err |-> "", users |-> utbl,
          withdrawals |-> wtbl \cup {[w EXCEPT !.processed = now]}]

\* The UPDATE of the transaction without its WHERE clause.
DBAccrualWithdrawNoWhere(utbl, wtbl, w) ==
    IF \E x \in wtbl : x.number = w.number
    THEN [err |-> "unique", users |-> utbl, withdrawals |-> wtbl]
    ELSE [err |-> "",
          users |-> {[u EXCEPT !.accrual = u.accrual - w.sum] : u \in utbl},
          withdrawals |-> wtbl \cup {[w EXCEPT !.processed = now]}]

\* One transaction: UPDATE users SET accrual = accrual - sum; INSERT INTO
\* withdrawals (number is UNIQUE); any statement error rolls both back.
DBAccrualWithdraw(utbl, wtbl, w) ==
    IF \E x \in wtbl : x.number = w.number
    THEN [err |-> "unique", users |-> utbl, withdrawals |-> wtbl]
    ELSE [err |-> "",
          users |-> DBUserAddAccrual(utbl, w.userid, 0 - w.sum),
          withdrawals |-> wtbl \cup {[w EXCEPT !.processed = now]}]

RECURSIVE SumOf(_, _)
\* Sum of field f over a finite set of rows.
SumOf(rows, f) ==
    IF rows = {} THEN 0
    ELSE LET r == CHOOSE x \in rows : TRUE IN r[f] + SumOf(rows \ {r}, f)

Withdrawn(userid) == SumOf({w \in withdrawals : w.userid = userid}, "sum")

(***************************************************************************)
(* Initial state: empty tables, nothing in flight                          *)
(***************************************************************************)
\* The process right after Start has launched its goroutines.
Started ==
    /\ ctx = "live"
    /\ egCtx = "live"
    /\ egErr = ""
    /\ dispatcher = "wait"
    /\ srv = "serving"
    /\ pool = "open"

Init ==
    /\ users = {}
    /\ orders = {}
    /\ withdrawals = {}
    /\ req = [r \in Reqs |-> IdleReq]
    /\ ticker = IdleTicker
    /\ inputCh = <<>>
    /\ wk = [w \in Workers |-> IdleWorker]
    /\ RetryFlag = FALSE
    /\ now = 0
    /\ Started
    /\ luhnCall = NoCall

Free(r) == req[r].pc \in {"idle", "done"}

\* The handler returns: its locals are gone, the response code (and, for the
\* properties, the handler's last err) is what remains of the request.
RespondBody(r, op, code, err, body) ==
    req' = [req EXCEPT ![r] = [pc |-> "done", op |-> op, user |-> "",
                               number |-> <<>>, sum |-> 0, code |-> code,
                               err |-> err, body |-> body]]

Respond(r, op, code, err) == RespondBody(r, op, code, err, <<>>)

Proceed(r, pc, op, u, number, sum) ==
    req' = [req EXCEPT ![r] = [pc |-> pc, op |-> op, user |-> u,
                               number |-> number, sum |-> sum, code |-> 0,
                               err |-> "", body |-> <<>>]]

(***************************************************************************)
(* POST /api/user/register                                                 *)
(***************************************************************************)
HandlerUserAdd(r, u, p) ==
    /\ Free(r)
    /\ LET res == DBUserAdd(users, u, HashPassword(p))
       IN  /\ users' = res.users
           /\ Respond(r, "UserAdd",
                      IF res.err # "" THEN StatusConflict ELSE StatusOK, res.err)
    /\ UNCHANGED <<env, orders, withdrawals, poller>>

(***************************************************************************)
(* POST /api/user/orders: validate and pre-read, then insert               *)
(***************************************************************************)
HandlerOrderAddGet(r, u, body, fail) ==
    /\ Free(r)
    /\ u \in Registered
    /\ IF ~ValidOrderNumber(body)
       THEN Respond(r, "OrderAdd", StatusUnprocessableEntity, "")
       ELSE IF fail
       THEN Respond(r, "OrderAdd", StatusInternalServerError, "db")
       ELSE LET order == DBOrderGet(orders, body)
            IN  IF order.userid # ""
                THEN Respond(r, "OrderAdd",
                             IF order.userid = u THEN StatusOK ELSE StatusConflict, "")
                ELSE Proceed(r, "orderAdd", "OrderAdd", u, body, 0)
    /\ UNCHANGED <<env, ledger, poller>>

HandlerOrderAddInsert(r, fail) ==
    /\ req[r].pc = "orderAdd"
    /\ LET res == IF fail THEN [err |-> "db", orders |-> orders]
                  ELSE DBOrderAdd(orders, req[r].user, req[r].number)
       IN  /\ orders' = res.orders
           /\ Respond(r, "OrderAdd",
                      IF res.err # "" THEN StatusConflict ELSE StatusAccepted, res.err)
    /\ UNCHANGED <<env, users, withdrawals, poller>>

(***************************************************************************)
(* POST /api/user/balance/withdraw: validate and read the balance, then    *)
(* run the withdrawal transaction                                          *)
(***************************************************************************)
\* A check that lets every request through.
NotEnoughAccrualNever(accrual, sum) == FALSE

\* if user.Accrual == 0 || w.Sum > user.Accrual
NotEnoughAccrual(accrual, sum) == accrual = 0 \/ sum > accrual

HandlerAccrualWithdrawCheck(r, u, body, sum, decodes, fail) ==
    /\ Free(r)
    /\ u \in Registered
    /\ IF ~decodes
       THEN Respond(r, "Withdraw", StatusBadRequest, "")
       ELSE IF ~ValidOrderNumber(body)
       THEN Respond(r, "Withdraw", StatusUnprocessableEntity, "")
       ELSE IF fail
       THEN Respond(r, "Withdraw", StatusInternalServerError, "db")
       ELSE IF NotEnoughAccrual(Balance(u), sum)
       THEN Respond(r, "Withdraw", StatusPaymentRequired, "")
       ELSE Proceed(r, "withdraw", "Withdraw", u, body, sum)
    /\ UNCHANGED <<env, ledger, poller>>

HandlerAccrualWithdrawTx(r, fail) ==
    /\ req[r].pc = "withdraw"
    /\ LET w   == [userid |-> req[r].user, number |-> req[r].number, sum |-> req[r].sum,
                   processed |-> 0]
           res == IF fail THEN [err |-> "db", users |-> users, withdrawals |-> withdrawals]
                  ELSE DBAccrualWithdraw(users, withdrawals, w)
       IN  /\ users' = res.users
           /\ withdrawals' = res.withdrawals
           /\ Respond(r, "Withdraw",
                      IF res.err # "" THEN StatusConflict ELSE StatusOK, res.err)
    /\ UNCHANGED <<env, orders, poller>>

(***************************************************************************)
(* GET /api/user/balance: PostgresDB.BalanceGet runs two SELECTs inside    *)
(* one transaction begun with the default options (READ COMMITTED: each    *)
(* statement reads the rows committed when it starts)                      *)
(***************************************************************************)
\* SELECT (accrual) FROM users WHERE userid=$1; balance.Current = accrual
HandlerBalanceGetAccrual(r, u, fail) ==
    /\ Free(r)
    /\ u \in Registered
    /\ IF fail
       THEN Respond(r, "BalanceGet", StatusInternalServerError, "db")
       ELSE req' = [req EXCEPT ![r] =
                       [pc |-> "balanceGet", op |-> "BalanceGet", user |-> u,
                        number |-> <<>>, sum |-> 0, code |-> 0, err |-> "",
                        body |-> <<[current |-> Balance(u), withdrawn |-> 0]>>]]
    /\ UNCHANGED <<env, ledger, poller>>

\* SELECT COALESCE(SUM(sum), 0) FROM withdrawals WHERE userid=$1; commit;
\* balance.Withdrawn = sum; the handler writes the JSON body.
HandlerBalanceGetWithdrawn(r, fail) ==
    /\ req[r].pc = "balanceGet"
    /\ IF fail
       THEN Respond(r, "BalanceGet", StatusInternalServerError, "db")
       ELSE RespondBody(r, "BalanceGet", StatusOK, "",
                        <<[current |-> req[r].body[1].current,
                           withdrawn |-> Withdrawn(req[r].user)]>>)
    /\ UNCHANGED <<env, ledger, poller>>

(***************************************************************************)
(* GET /api/user/orders and GET /api/user/withdrawals                      *)
(***************************************************************************)
\* The clock moves on by a second.
Tick ==
    /\ now < MaxTime
    /\ now' = now + 1
    /\ UNCHANGED <<ledger, req, poller, luhnCall, life>>

\* All orderings in which a set of rows may come back.
RECURSIVE RowOrderings(_)
RowOrderings(rows) ==
    IF rows = {} THEN {<<>>}
    ELSE UNION {{<<r>> \o s : s \in RowOrderings(rows \ {r})} : r \in rows}

\* ORDER BY f ASC
AscendingBy(rows, f) == \A i \in 1..(Len(rows) - 1) : rows[i][f] <= rows[i + 1][f]

\* The SELECT without its ORDER BY.
DBOrdersGetUnordered(tbl, userid) == RowOrderings({o \in tbl : o.userid = userid})

\* SELECT * FROM orders WHERE userid=$1 ORDER BY uploaded_at ASC: the results
\* the statement may give (rows of equal uploaded_at come in any order).
DBOrdersGet(tbl, userid) ==
    {rows \in RowOrderings({o \in tbl : o.userid = userid}) :
        AscendingBy(rows, "uploaded")}

\* SELECT * FROM withdrawals WHERE userid=$1 ORDER BY processed_at ASC
DBWithdrawalsGet(tbl, userid) ==
    {rows \in RowOrderings({w \in tbl : w.userid = userid}) :
        AscendingBy(rows, "processed")}

\* The response to the caller u: status code, the error the ledger read
\* gave (if any) and the JSON array written.
RespondList(r, op, u, code, err, body) ==
    req' = [req EXCEPT ![r] = [pc |-> "done", op |-> op, user |-> u,
                               number |-> <<>>, sum |-> 0, code |-> code,
                               err |-> err, body |-> body]]

\* OrdersGet: an error of the read is printed and the handler goes on to
\* marshal the nil list it was given; WriteHeader is never called on that
\* path, so the status is 200.
HandlerOrdersGet(r, u, fail) ==
    /\ Free(r)
    /\ u \in Registered
    /\ IF fail
       THEN RespondList(r, "OrdersGet", u, StatusOK, "db", <<>>)
       ELSE \E rows \in DBOrdersGet(orders, u) :
               RespondList(r, "OrdersGet", u, StatusOK, "", rows)
    /\ UNCHANGED <<env, ledger, poller>>

HandlerWithdrawalsGet(r, u, fail) ==
    /\ Free(r)
    /\ u \in Registered
    /\ IF fail
       THEN RespondList(r, "WithdrawalsGet", u, StatusInternalServerError, "db", <<>>)
       ELSE \E rows \in DBWithdrawalsGet(withdrawals, u) :
               RespondList(r, "WithdrawalsGet", u, StatusOK, "", rows)
    /\ UNCHANGED <<env, ledger, poller>>

(***************************************************************************)
(* Ledger statements of the accrual poller                                 *)
(***************************************************************************)
Claimable(o) == o.status = "NEW" \/ o.status = "PROCESSING"

\* The same statement without its WHERE clause.
DBClaimTableNoWhere(tbl) == {[o EXCEPT !.status = "PROCESSING"] : o \in tbl}

\* UPDATE orders SET status='PROCESSING' WHERE (status='NEW' OR
\* status='PROCESSING') RETURNING *: the table after the statement.
DBClaimTable(tbl) ==
    {IF Claimable(o) THEN [o EXCEPT !.status = "PROCESSING"] ELSE o : o \in tbl}

\* ... and the rows it returns.
DBClaimRows(tbl) == {[o EXCEPT !.status = "PROCESSING"] : o \in {x \in tbl : Claimable(x)}}

DBUpdateOrderRestamp(tbl, order) ==
    {IF o.number = order.number
     THEN [o EXCEPT !.status = order.status, !.accrual = order.accrual,
                    !.uploaded = o.uploaded + 1]
     ELSE o : o \in tbl}

\* UPDATE orders SET status=$1, accrual=$2 WHERE number=$3
DBUpdateOrder(tbl, order) ==
    {IF o.number = order.number
     THEN [o EXCEPT !.status = order.status, !.accrual = order.accrual]
     ELSE o : o \in tbl}

\* All orderings in which the rows of a result set may come back.
RECURSIVE Orderings(_)
Orderings(rows) ==
    IF rows = {} THEN {<<>>}
    ELSE UNION {{<<r>> \o s : s \in Orderings(rows \ {r})} : r \in rows}

(***************************************************************************)
(* orderTicker: claim on every tick, then send the batch row by row        *)
(***************************************************************************)
TickerClaim ==
    /\ ticker.pc = "wait"
    /\ orders' = DBClaimTable(orders)
    /\ \E batch \in Orderings(DBClaimRows(orders)) :
          ticker' = [pc |-> IF batch = <<>> THEN "wait" ELSE "send", batch |-> batch]
    /\ UNCHANGED <<env, users, withdrawals, req, inputCh, wk, RetryFlag>>

TickerSend ==
    /\ ticker.pc = "send"
    /\ Len(inputCh) < NumWorkers
    /\ inputCh' = Append(inputCh, Head(ticker.batch))
    /\ ticker' = [pc |-> IF Len(ticker.batch) = 1 THEN "wait" ELSE "send",
                  batch |-> Tail(ticker.batch)]
    /\ UNCHANGED <<env, ledger, req, wk, RetryFlag>>

(***************************************************************************)
(* getAccrualWorker                                                        *)
(***************************************************************************)
\* Answers of the Accrual service to GET /api/orders/{number}.
\* A 200 body {order, status, accrual}.  The service reports an accrual only
\* for an order it has PROCESSED; for the other statuses the field is missing
\* (hasAccrual = FALSE).
Responses200 ==
    {[kind |-> "200", status |-> "PROCESSED", hasAccrual |-> TRUE, accrual |-> a] :
        a \in AccrualAmounts}
    \cup {[kind |-> "200", status |-> s, hasAccrual |-> FALSE, accrual |-> 0] :
        s \in AccrualStatuses \ {"PROCESSED"}}

\* header is the Retry-After header: absent, an integer, or not an integer.
Responses429 == {[kind |-> "429", header |-> h] : h \in {"", "int", "junk"}}

ResponsesOther == {[kind |-> "transport"], [kind |-> "other"]}

Responses == Responses200 \cup Responses429 \cup ResponsesOther

SetWorker(w, pc, order, ar) ==
    wk' = [wk EXCEPT ![w] = [pc |-> pc, order |-> order, ar |-> ar]]

\* case order := <-ch
WorkerRecv(w) ==
    /\ wk[w].pc = "recv"
    /\ inputCh # <<>>
    /\ inputCh' = Tail(inputCh)
    /\ SetWorker(w, "check", Head(inputCh), wk[w].ar)
    /\ UNCHANGED <<env, ledger, req, ticker, RetryFlag>>

\* if rf.Load() { ... }
WorkerCheckFlag(w) ==
    /\ wk[w].pc = "check"
    /\ SetWorker(w, IF RetryFlag THEN "waitFlag" ELSE "fetch", wk[w].order, wk[w].ar)
    /\ UNCHANGED <<env, ledger, req, ticker, inputCh, RetryFlag>>

\* A worker that sleeps once and goes on without reading the flag again.
WorkerWaitFlagOnce(w) ==
    /\ wk[w].pc = "waitFlag"
    /\ SetWorker(w, "fetch", wk[w].order, wk[w].ar)
    /\ UNCHANGED <<env, ledger, req, ticker, inputCh, RetryFlag>>

\* time.Sleep(AccrualWorkerRetry); if !rf.Load() { break }
WorkerWaitFlag(w) ==
    /\ wk[w].pc = "waitFlag"
    /\ ~RetryFlag
    /\ SetWorker(w, "fetch", wk[w].order, wk[w].ar)
    /\ UNCHANGED <<env, ledger, req, ticker, inputCh, RetryFlag>>

\* A worker that writes the order off whatever the answer is.
WorkerFetchWriteOff(w, resp) ==
    /\ wk[w].pc = "fetch"
    /\ orders' = DBUpdateOrder(orders, [wk[w].order EXCEPT !.status = "INVALID"])
    /\ SetWorker(w, "recv", NoOrder, wk[w].ar)
    /\ UNCHANGED <<env, users, withdrawals, req, ticker, inputCh, RetryFlag>>

\* One GET and the classification of its answer.  json.Unmarshal into the
\* worker's ar leaves a field the body does not carry as it was.
WorkerFetch(w, resp) ==
    /\ wk[w].pc = "fetch"
    /\ IF resp.kind = "200"
       THEN LET ar == [Accrual |-> IF resp.hasAccrual THEN resp.accrual
                                   ELSE wk[w].ar.Accrual]
            IN  /\ SetWorker(w, "update",
                             [wk[w].order EXCEPT !.status = resp.status,
                                                 !.accrual = ar.Accrual], ar)
                /\ UNCHANGED RetryFlag
       ELSE IF resp.kind = "429" /\ resp.header # "junk"
       THEN /\ RetryFlag' = TRUE
            /\ SetWorker(w, "sleep429", wk[w].order, wk[w].ar)
       ELSE /\ SetWorker(w, "recv", NoOrder, wk[w].ar)
            /\ UNCHANGED RetryFlag
    /\ UNCHANGED <<env, ledger, req, ticker, inputCh>>

\* The Retry-After interval of the 429 this worker received has passed.
WorkerRetryAfterElapsed(w) ==
    /\ wk[w].pc = "sleep429"
    /\ SetWorker(w, "slept429", wk[w].order, wk[w].ar)
    /\ UNCHANGED <<env, ledger, req, ticker, inputCh, RetryFlag>>

WorkerWakeNoClear(w) ==
    /\ wk[w].pc = "slept429"
    /\ SetWorker(w, "fetch", wk[w].order, wk[w].ar)
    /\ UNCHANGED <<env, ledger, req, ticker, inputCh, RetryFlag>>

\* rf.Store(false); continue
WorkerWake(w) ==
    /\ wk[w].pc = "slept429"
    /\ RetryFlag' = FALSE
    /\ SetWorker(w, "fetch", wk[w].order, wk[w].ar)
    /\ UNCHANGED <<env, ledger, req, ticker, inputCh>>

\* An OrderUpdate that drops the error of UpdateOrder and goes on.
OrderUpdateStatusThenCredit(w, fail) ==
    /\ wk[w].pc = "update"
    /\ orders' = IF fail THEN orders ELSE DBUpdateOrder(orders, wk[w].order)
    /\ IF wk[w].order.accrual # 0
       THEN SetWorker(w, "credit", wk[w].order, wk[w].ar)
       ELSE SetWorker(w, "recv", NoOrder, wk[w].ar)
    /\ UNCHANGED <<env, users, withdrawals, req, ticker, inputCh, RetryFlag>>

\* OrderUpdate, first statement: store.UpdateOrder
OrderUpdateStatus(w, fail) ==
    /\ wk[w].pc = "update"
    /\ orders' = IF fail THEN orders ELSE DBUpdateOrder(orders, wk[w].order)
    /\ IF ~fail /\ wk[w].order.accrual # 0
       THEN SetWorker(w, "credit", wk[w].order, wk[w].ar)
       ELSE SetWorker(w, "recv", NoOrder, wk[w].ar)
    /\ UNCHANGED <<env, users, withdrawals, req, ticker, inputCh, RetryFlag>>

\* OrderUpdate, second statement: store.UserAddAccrual
OrderUpdateAccrual(w, fail) ==
    /\ wk[w].pc = "credit"
    /\ \A u \in users : u.userid = wk[w].order.userid
                           => u.accrual + wk[w].order.accrual <= MaxBalance
    /\ users' = IF fail THEN users
                ELSE DBUserAddAccrual(users, wk[w].order.userid, wk[w].order.accrual)
    /\ SetWorker(w, "recv", NoOrder, wk[w].ar)
    /\ UNCHANGED <<env, orders, withdrawals, req, ticker, inputCh, RetryFlag>>

(***************************************************************************)
(* Cancellation and the error group of OrderDispatcher                     *)
(***************************************************************************)
ReturnedTicker == [pc |-> "returned", batch |-> <<>>]

\* The context of Start is cancelled by SIGINT or SIGTERM; egCtx is its child.
RootCancel ==
    /\ ctx = "live"
    /\ ctx' = "done"
    /\ egCtx' = "done"
    /\ UNCHANGED <<ledger, req, poller, now, luhnCall, egErr, dispatcher, srv, pool>>

\* A task of the group returns err: the group keeps the first error and
\* cancels egCtx.
GroupFail(err) ==
    /\ egErr' = IF egErr = "" THEN err ELSE egErr
    /\ egCtx' = "done"
    /\ UNCHANGED <<now, luhnCall, ctx, dispatcher, srv, pool>>

\* orderTicker, case <-ctx.Done(): return nil
TickerDone ==
    /\ ticker.pc = "wait"
    /\ egCtx = "done"
    /\ ticker' = ReturnedTicker
    /\ UNCHANGED <<env, ledger, req, inputCh, wk, RetryFlag>>

\* orderTicker, case <-ordersTicker.C with GetUnprocessedOrders failing: the
\* statement did not run, or it ran and its rows could not be read.
TickerClaimFail ==
    /\ ticker.pc = "wait"
    /\ \E ran \in BOOLEAN : orders' = IF ran THEN DBClaimTable(orders) ELSE orders
    /\ ticker' = ReturnedTicker
    /\ GroupFail("order ticker failed")
    /\ UNCHANGED <<users, withdrawals, req, inputCh, wk, RetryFlag>>

\* getAccrualWorker, case <-ctx.Done(): return nil
WorkerDone(w) ==
    /\ wk[w].pc = "recv"
    /\ egCtx = "done"
    /\ SetWorker(w, "returned", NoOrder, wk[w].ar)
    /\ UNCHANGED <<env, ledger, req, ticker, inputCh, RetryFlag>>

\* getAccrualWorker: a 200 whose body json.Unmarshal rejects
WorkerUnmarshalFail(w) ==
    /\ wk[w].pc = "fetch"
    /\ SetWorker(w, "returned", NoOrder, wk[w].ar)
    /\ GroupFail("accrual worker failed")
    /\ UNCHANGED <<ledger, req, ticker, inputCh, RetryFlag>>

\* eg.Wait() returns once every task of the group has returned; an error it
\* returns cancels the context of Start's group.
DispatcherReturn ==
    /\ dispatcher = "wait"
    /\ ticker.pc = "returned"
    /\ \A w \in Workers : wk[w].pc = "returned"
    /\ dispatcher' = "returned"
    /\ egCtx' = "done"
    /\ ctx' = IF egErr # "" THEN "done" ELSE ctx
    /\ UNCHANGED <<ledger, req, poller, now, luhnCall, egErr, srv, pool>>

(***************************************************************************)
(* Start: the goroutines that wait for ctx.Done()                          *)
(***************************************************************************)
\* <-ctx.Done(); s.Close()
CloseDB ==
    /\ ctx = "done"
    /\ pool = "open"
    /\ pool' = "closed"
    /\ UNCHANGED <<ledger, req, poller, now, luhnCall, ctx, egCtx, egErr, dispatcher, srv>>

\* <-ctx.Done(); srv.Shutdown(shutdownTimeoutCtx): the listeners are closed,
\* no new request is accepted.
ServerShutdown ==
    /\ ctx = "done"
    /\ srv = "serving"
    /\ srv' = "shutdown"
    /\ UNCHANGED <<ledger, req, poller, now, luhnCall, ctx, egCtx, egErr, dispatcher, pool>>

\* srv.Shutdown returns once every handler has returned, or when its timeout
\* TimeoutServerShutdown has passed.
ServerShutdownReturn(timeout) ==
    /\ srv = "shutdown"
    /\ timeout \/ \A r \in Reqs : Free(r)
    /\ srv' = "closed"
    /\ UNCHANGED <<ledger, req, poller, now, luhnCall, ctx, egCtx, egErr, dispatcher, pool>>

(***************************************************************************)
(* Process restart: the tables persist, everything in memory is lost       *)
(***************************************************************************)
Restart ==
    /\ req' = [r \in Reqs |-> IdleReq]
    /\ ticker' = IdleTicker
    /\ inputCh' = <<>>
    /\ wk' = [w \in Workers |-> IdleWorker]
    /\ RetryFlag' = FALSE
    /\ UNCHANGED <<env, ledger>>

(***************************************************************************)
(* Specifications                                                          *)
(***************************************************************************)
\* The accrual poller: one client registers and submits orders while the
\* dispatcher and the workers run; the process may restart at any time.
PollerUsers == {AllUsers[1]}
PollerBodies == {<<"1", "8">>}

Admission(rs, us, bodies, faults) ==
    \E r \in rs, u \in us :
        \/ \E p \in Passwords : HandlerUserAdd(r, u, p)
        \/ \E body \in bodies, fail \in faults : HandlerOrderAddGet(r, u, body, fail)
        \/ \E fail \in faults : HandlerOrderAddInsert(r, fail)

\* Dispatcher and workers, the Accrual service answering from resps.
Poller(resps) ==
    \/ TickerClaim
    \/ TickerSend
    \/ \E w \in Workers :
          \/ WorkerRecv(w)
          \/ WorkerCheckFlag(w)
          \/ \E resp \in resps : WorkerFetch(w, resp)
          \/ \E fail \in BOOLEAN : OrderUpdateStatus(w, fail)
          \/ \E fail \in BOOLEAN : OrderUpdateAccrual(w, fail)

\* The steps a worker takes only after some worker has seen a 429.
BackPressure ==
    \E w \in Workers :
        \/ WorkerWaitFlag(w)
        \/ WorkerRetryAfterElapsed(w)
        \/ WorkerWake(w)

Next ==
    \/ Admission({1}, PollerUsers, PollerBodies, {FALSE})
    \/ Poller(Responses200 \cup ResponsesOther)
    \/ Restart

Spec == Init /\ [][Next]_vars

\* The same poller with an Accrual service that rate-limits.
RateLimitedResponses ==
    Responses429 \cup ResponsesOther
    \cup {r \in Responses200 : r.status \in {"PROCESSING", "PROCESSED"}}

NextRateLimited ==
    \/ Admission({1}, PollerUsers, PollerBodies, {FALSE})
    \/ Poller(RateLimitedResponses)
    \/ BackPressure

SpecRateLimited == Init /\ [][NextRateLimited]_vars

\* Concurrent submissions of one valid number, one that fails the Luhn check
\* and one body that is no number, by all users, with ledger faults.
AdmissionBodies == {<<"1", "8">>, <<"1", "9">>, <<"x">>}

NextAdmission == Admission(Reqs, Users, AdmissionBodies, BOOLEAN)

SpecAdmission == Init /\ [][NextAdmission]_vars

\* Submissions whose body carries a sign.
NextAdmissionRaw == Admission(Reqs, Users, RawBodies \cup {<<"1", "8">>}, {FALSE})

SpecAdmissionRaw == Init /\ [][NextAdmissionRaw]_vars

\* Concurrent withdrawals against a funded ledger: user01 has been awarded
\* InitialAward for its PROCESSED order "18", every other user has nothing.
InitialAward == 2

FundedUsers ==
    {[userid |-> u, password |-> HashPassword("p"),
      accrual |-> IF u = AllUsers[1] THEN InitialAward ELSE 0] : u \in Users}

FundedOrders ==
    {[userid |-> AllUsers[1], number |-> <<"1", "8">>, status |-> "PROCESSED",
      accrual |-> InitialAward, uploaded |-> 0]}

InitFunded ==
    /\ users = FundedUsers
    /\ orders = FundedOrders
    /\ withdrawals = {}
    /\ req = [r \in Reqs |-> IdleReq]
    /\ ticker = IdleTicker
    /\ inputCh = <<>>
    /\ wk = [w \in Workers |-> IdleWorker]
    /\ RetryFlag = FALSE
    /\ now = 0
    /\ Started
    /\ luhnCall = NoCall

Withdrawal(rs, us, bodies, sums, faults) ==
    \E r \in rs, u \in us :
        \/ \E body \in bodies, sum \in sums, decodes \in BOOLEAN, fail \in faults :
              HandlerAccrualWithdrawCheck(r, u, body, sum, decodes, fail)
        \/ \E fail \in faults : HandlerAccrualWithdrawTx(r, fail)

NextWithdraw == Withdrawal(Reqs, Users, OrderBodies, Sums, BOOLEAN)

SpecWithdraw == InitFunded /\ [][NextWithdraw]_vars

\* The same withdrawals with request bodies whose sum is zero or negative.
NextWithdrawSigned == Withdrawal(Reqs, Users, OrderBodies, SignedSums \cup {1}, {FALSE})

SpecWithdrawSigned == InitFunded /\ [][NextWithdrawSigned]_vars

\* The poller reaches the funded ledger (for the one user it registers).
FundedLedgerNotReached ==
    ~(/\ orders = FundedOrders
      /\ users = {u \in FundedUsers : u.userid = AllUsers[1]}
      /\ withdrawals = {})

\* Balance reads next to concurrent withdrawals against the funded ledger.
BalanceReads(rs, us, faults) ==
    \E r \in rs, u \in us, fail \in faults :
        \/ HandlerBalanceGetAccrual(r, u, fail)
        \/ HandlerBalanceGetWithdrawn(r, fail)

NextBalance ==
    \/ Withdrawal(Reqs, Users, OrderBodies, Sums, {FALSE})
    \/ BalanceReads(Reqs, Users, BOOLEAN)

SpecBalance == InitFunded /\ [][NextBalance]_vars

\* Listings next to submissions and withdrawals made at different times.
\* The ledger starts funded, with an order of a second user beside it; one
\* request slot writes, two slots list.
HistoryOrders ==
    FundedOrders
    \cup {[userid |-> AllUsers[2], number |-> <<"3", "4">>, status |-> "NEW",
           accrual |-> 0, uploaded |-> 0]}

InitHistory ==
    /\ users = FundedUsers
    /\ orders = HistoryOrders
    /\ withdrawals = {}
    /\ req = [r \in Reqs |-> IdleReq]
    /\ ticker = IdleTicker
    /\ inputCh = <<>>
    /\ wk = [w \in Workers |-> IdleWorker]
    /\ RetryFlag = FALSE
    /\ now = 0
    /\ Started
    /\ luhnCall = NoCall

Listing(rs, us, faults) ==
    \E r \in rs, u \in us, fail \in faults :
        \/ HandlerOrdersGet(r, u, fail)
        \/ HandlerWithdrawalsGet(r, u, fail)

NextHistory ==
    \/ Tick
    \/ \E u \in Users :
          \/ HandlerOrderAddGet(1, u, <<"2", "6">>, FALSE)
          \/ HandlerOrderAddInsert(1, FALSE)
    \/ Withdrawal({1}, {AllUsers[1]}, {<<"1", "8">>, <<"2", "6">>}, {1}, {FALSE})
    \/ Listing({r \in Reqs : r <= 2}, Users, BOOLEAN)

SpecHistory == InitHistory /\ [][NextHistory]_vars

\* Registrations, with either password, next to withdrawals; user01 is
\* registered and funded from the start, the other users are not registered.
InitRegister ==
    /\ users = {u \in FundedUsers : u.userid = AllUsers[1]}
    /\ orders = FundedOrders
    /\ withdrawals = {}
    /\ req = [r \in Reqs |-> IdleReq]
    /\ ticker = IdleTicker
    /\ inputCh = <<>>
    /\ wk = [w \in Workers |-> IdleWorker]
    /\ RetryFlag = FALSE
    /\ now = 0
    /\ Started
    /\ luhnCall = NoCall

NextRegister ==
    \/ \E r \in Reqs, u \in Users, p \in RegisterPasswords : HandlerUserAdd(r, u, p)
    \/ Withdrawal(Reqs, Users, {<<"1", "8">>}, {1}, {FALSE})

SpecRegister == InitRegister /\ [][NextRegister]_vars

\* helpers.ValidOrder called directly, MaxCalls times on one number: on every
\* number up to MaxNumber and on the two ten-digit numbers 2377225624 and
\* 2377225625.
LuhnInputs ==
    {ToInt64(n) : n \in 0..MaxNumber}
    \cup {Int64(FALSE, 23772, 25624), Int64(FALSE, 23772, 25625)}

InitLuhn ==
    /\ users = {}
    /\ orders = {}
    /\ withdrawals = {}
    /\ req = [r \in Reqs |-> IdleReq]
    /\ ticker = IdleTicker
    /\ inputCh = <<>>
    /\ wk = [w \in Workers |-> IdleWorker]
    /\ RetryFlag = FALSE
    /\ now = 0
    /\ Started
    /\ luhnCall \in {[NoCall EXCEPT !.number = number] : number \in LuhnInputs}

CallValidOrder ==
    /\ luhnCall.calls < MaxCalls
    /\ luhnCall' = [luhnCall EXCEPT !.calls = @ + 1,
                                    !.result = ValidOrder(luhnCall.number)]
    /\ UNCHANGED <<ledger, req, poller, now, life>>

NextLuhn == CallValidOrder

SpecLuhn == InitLuhn /\ [][NextLuhn]_vars

\* The poller over a ledger that holds orders in every status, as after a
\* restart: one NEW, one left PROCESSING, one INVALID and two PROCESSED, of
\* two users, and one withdrawal.
ClaimOrders ==
    {[userid |-> AllUsers[1], number |-> <<"1", "8">>, status |-> "NEW",
      accrual |-> 0, uploaded |-> 0],
     [userid |-> AllUsers[2], number |-> <<"2", "6">>, status |-> "PROCESSING",
      accrual |-> 0, uploaded |-> 0],
     [userid |-> AllUsers[1], number |-> <<"3", "4">>, status |-> "INVALID",
      accrual |-> 0, uploaded |-> 0],
     [userid |-> AllUsers[2], number |-> <<"4", "2">>, status |-> "PROCESSED",
      accrual |-> InitialAward, uploaded |-> 0],
     [userid |-> AllUsers[1], number |-> <<"6", "7">>, status |-> "PROCESSED",
      accrual |-> InitialAward, uploaded |-> 0]}

InitClaim ==
    /\ users = {[userid |-> AllUsers[1], password |-> HashPassword("p"),
                 accrual |-> InitialAward],
                [userid |-> AllUsers[2], password |-> HashPassword("p"),
                 accrual |-> InitialAward - 1]}
    /\ orders = ClaimOrders
    /\ withdrawals = {[userid |-> AllUsers[2], number |-> <<"5", "9">>, sum |-> 1,
                       processed |-> 0]}
    /\ req = [r \in Reqs |-> IdleReq]
    /\ ticker = IdleTicker
    /\ inputCh = <<>>
    /\ wk = [w \in Workers |-> IdleWorker]
    /\ RetryFlag = FALSE
    /\ now = 0
    /\ Started
    /\ luhnCall = NoCall

\* The Accrual service fails, answers with another status, or rejects the
\* order.
ClaimResponses == ResponsesOther \cup {r \in Responses200 : r.status = "INVALID"}

\* With these answers order.Accrual stays 0 and OrderUpdate stops after
\* UpdateOrder.
NextClaim ==
    \/ TickerClaim
    \/ TickerSend
    \/ \E w \in Workers :
          \/ WorkerRecv(w)
          \/ WorkerCheckFlag(w)
          \/ \E resp \in ClaimResponses : WorkerFetch(w, resp)
          \/ \E fail \in BOOLEAN : OrderUpdateStatus(w, fail)

SpecClaim == InitClaim /\ [][NextClaim]_vars

\* The Accrual service is unreachable or settles the order with an accrual.
DispatcherResponses ==
    {r \in Responses : r.kind = "transport"}
    \cup {r \in Responses200 : r.status = "PROCESSED" /\ r.accrual = 2}

\* The tasks of the group return once egCtx is done, and then eg.Wait().
GroupReturns ==
    \/ TickerDone
    \/ \E w \in Workers : WorkerDone(w)
    \/ DispatcherReturn

\* The poller under a cancellation from outside.
NextDispatcher ==
    \/ Poller(DispatcherResponses)
    \/ RootCancel
    \/ GroupReturns

SpecDispatcher == InitClaim /\ [][NextDispatcher]_vars

\* The poller with tasks that fail.
NextGroupFailure ==
    \/ Poller(DispatcherResponses)
    \/ TickerClaimFail
    \/ \E w \in Workers : WorkerUnmarshalFail(w)
    \/ GroupReturns

SpecGroupFailure == InitClaim /\ [][NextGroupFailure]_vars

\* Requests served while the process is shut down: a request is accepted
\* only while the server listens, and every ledger call on a closed pool
\* fails.
Serve(rs, us, bodies) ==
    \E r \in rs, u \in us :
        \/ /\ srv = "serving"
           /\ \E body \in bodies : HandlerOrderAddGet(r, u, body, pool = "closed")
        \/ HandlerOrderAddInsert(r, pool = "closed")

NextShutdown ==
    \/ RootCancel
    \/ CloseDB
    \/ ServerShutdown
    \/ \E timeout \in BOOLEAN : ServerShutdownReturn(timeout)
    \/ Serve(Reqs, Users, OrderBodies)

SpecShutdown == InitFunded /\ [][NextShutdown]_vars

\* The poller against an Accrual service that rate-limits without a
\* Retry-After header or rejects the order.
BackPressureResponses ==
    {r \in Responses429 : r.header = ""} \cup {r \in Responses200 : r.status = "INVALID"}

NextBackPressure ==
    \/ TickerClaim
    \/ TickerSend
    \/ \E w \in Workers :
          \/ WorkerRecv(w)
          \/ WorkerCheckFlag(w)
          \/ \E resp \in BackPressureResponses : WorkerFetch(w, resp)
          \/ \E fail \in BOOLEAN : OrderUpdateStatus(w, fail)
    \/ BackPressure

SpecBackPressure == InitClaim /\ [][NextBackPressure]_vars

\* The poller over one user and one order just admitted.
InitApply ==
    /\ users = {[userid |-> AllUsers[1], password |-> HashPassword("p"), accrual |-> 0]}
    /\ orders = {[userid |-> AllUsers[1], number |-> <<"1", "8">>, status |-> "NEW",
                  accrual |-> 0, uploaded |-> 0]}
    /\ withdrawals = {}
    /\ req = [r \in Reqs |-> IdleReq]
    /\ ticker = IdleTicker
    /\ inputCh = <<>>
    /\ wk = [w \in Workers |-> IdleWorker]
    /\ RetryFlag = FALSE
    /\ now = 0
    /\ Started
    /\ luhnCall = NoCall

\* The Accrual service settles the order with an award.
ApplyResponses == {r \in Responses200 : r.status = "PROCESSED" /\ r.accrual = 2}

NextApply == Poller(ApplyResponses)

SpecApply == InitApply /\ [][NextApply]_vars

\* models.AccrualResponse.Accrual is a signed number: a 200 body may carry an
\* amount below zero.
SignedAccrualResponses ==
    {[kind |-> "200", status |-> "PROCESSED", hasAccrual |-> TRUE, accrual |-> -1]}

NextApplySigned == Poller(SignedAccrualResponses)

SpecApplySigned == InitApply /\ [][NextApplySigned]_vars

\* Registration decodes the login from the body and stores it as it is: the
\* empty string is a login like any other.
BlankLoginUsers == {"", AllUsers[1]}

NextBlankLogin == Admission(Reqs, BlankLoginUsers, {<<"1", "8">>}, {FALSE})

SpecBlankLogin == Init /\ [][NextBlankLogin]_vars

(***************************************************************************)
(* Properties                                                              *)
(***************************************************************************)
Terminal(status) == status = "INVALID" \/ status = "PROCESSED"

BalanceIn(tbl, userid) == (CHOOSE u \in tbl : u.userid = userid).accrual

Awarded(userid) == SumOf({o \in orders : o.userid = userid}, "accrual")

\* A copy of order number n is still on its way through the poller.
InFlight(n) ==
    \/ \E i \in 1..Len(ticker.batch) : ticker.batch[i].number = n
    \/ \E i \in 1..Len(inputCh) : inputCh[i].number = n
    \/ \E w \in Workers : wk[w].order.number = n

\* C1: every user's stored balance is >= 0 in every ledger state, also when
\* two withdrawals of one user both read the balance before either debits.
BalanceNonNegative == \A u \in users : u.accrual >= 0

\* C2: for every user, balance plus the sum of the user's withdrawals equals
\* the sum of the accruals stored on the user's orders, in every ledger state.
LedgerBalanced ==
    \A u \in users : u.accrual + Withdrawn(u.userid) = Awarded(u.userid)

\* C3: no two rows of orders carry the same number, whoever owns them.
OrderNumberUnique ==
    \A a \in orders, b \in orders : a.number = b.number => a = b

\* C3 witness: a request for a number is past its pre-read (which found no
\* row) while another user's row for that number has been committed.
OrderRaceReached ==
    \E r \in Reqs :
        /\ req[r].pc = "orderAdd"
        /\ \E o \in orders : o.number = req[r].number /\ o.userid # req[r].user

\* The row OrderAdd inserts.
NewOrder(u, body) ==
    [userid |-> u, number |-> body, status |-> "NEW", accrual |-> 0, uploaded |-> now]

\* C4: unless the ledger call itself fails, a submission of a valid number
\* that is not in the ledger returns 202 and inserts the row as NEW with
\* accrual 0; a submission of a number the caller already owns returns 200
\* and one of a number another user owns returns 409, both leaving the ledger
\* as it was; and 202 is the answer of an insert only.
SubmissionOutcome ==
    [][\A r \in Reqs :
         (req'[r] # req[r] /\ req'[r].op = "OrderAdd")
         => /\ Free(r)
               => \A body \in {o.number : o \in orders}, u \in Users :
                     HandlerOrderAddGet(r, u, body, FALSE)
                     => /\ ledger' = ledger
                        /\ req'[r].pc = "done"
                        /\ req'[r].code =
                              IF \E o \in orders : o.number = body /\ o.userid = u
                              THEN StatusOK ELSE StatusConflict
            /\ (/\ req[r].pc = "orderAdd"
                /\ ~(\E o \in orders : o.number = req[r].number)
                /\ HandlerOrderAddInsert(r, FALSE))
               => /\ req'[r].pc = "done"
                  /\ req'[r].code = StatusAccepted
                  /\ orders' = orders \cup {NewOrder(req[r].user, req[r].number)}
            /\ req'[r].code = StatusAccepted
               => /\ req[r].pc = "orderAdd"
                  /\ NewOrder(req[r].user, req[r].number) \in orders' \ orders
    ]_vars

\* C4 witness: a number is in the ledger as NEW, its owner's re-submission
\* has been answered 200 and another user's submission 409 by the pre-read.
ResubmissionReached ==
    \E r1 \in Reqs, r2 \in Reqs :
        /\ req[r1].pc = "done" /\ req[r1].op = "OrderAdd" /\ req[r1].code = StatusOK
        /\ req[r2].pc = "done" /\ req[r2].op = "OrderAdd"
        /\ req[r2].code = StatusConflict /\ req[r2].err = ""
        /\ \E o \in orders : o.status = "NEW"

\* C5: a non-terminal answer of the Accrual service never keeps an order
\* from a later terminal answer: an order whose stored status is not
\* terminal is picked up by the next claim, unless a copy of it is still
\* held by the dispatcher, the channel or a worker.
NonTerminalStaysClaimable ==
    \A o \in orders : ~Terminal(o.status) => Claimable(o) \/ InFlight(o.number)

\* C6: while the Retry-After interval of a 429 received by any worker has
\* not passed, no worker completes a Fetch with a 200.
NoFetchDuringRetryAfter ==
    [][\A w \in Workers :
         (wk[w].pc = "fetch" /\ wk'[w].pc = "update")
            => ~\E v \in Workers : wk[v].pc = "sleep429"]_vars

\* C7: every stored order status is NEW, PROCESSING, INVALID or PROCESSED.
StatusInDomain ==
    \A o \in orders : o.status \in {"NEW", "PROCESSING", "INVALID", "PROCESSED"}

\* C8: a row whose status is INVALID or PROCESSED keeps its status and its
\* accrual in every later step.
TerminalIsFinal ==
    [][\A o \in orders : Terminal(o.status) => o \in orders']_vars

\* C9: every order with accrual > 0 has status PROCESSED, and the poller
\* raises a balance only for an order it applies as PROCESSED.
AccrualOnlyWhenProcessed ==
    /\ \A o \in orders : o.accrual > 0 => o.status = "PROCESSED"
    /\ \A w \in Workers : wk[w].pc = "credit" => wk[w].order.status = "PROCESSED"

\* C10: the withdrawal transaction is atomic.  A step that ends it either
\* inserts the withdrawal row, debits exactly its sum from its user alone and
\* answers 200, or changes neither table and answers 409; it answers 409
\* whenever the number is already in withdrawals.  With no accrual applied in
\* between, balance + withdrawn stays what the user was awarded.
WithdrawAtomic ==
    /\ [](\A u \in users : u.accrual + Withdrawn(u.userid) = Awarded(u.userid))
    /\ [][\A r \in Reqs :
            (req[r].pc = "withdraw" /\ req'[r].pc = "done")
            => LET w == [userid |-> req[r].user, number |-> req[r].number,
                         sum |-> req[r].sum, processed |-> now]
               IN  /\ (\E x \in withdrawals : x.number = w.number)
                         => req'[r].code = StatusConflict
                   /\ \/ /\ req'[r].code = StatusOK
                         /\ req'[r].err = ""
                         /\ w \notin withdrawals
                         /\ withdrawals' = withdrawals \cup {w}
                         /\ \A u \in Users :
                               BalanceIn(users', u) = BalanceIn(users, u)
                                   - (IF u = w.userid THEN w.sum ELSE 0)
                      \/ /\ req'[r].code = StatusConflict
                         /\ req'[r].err # ""
                         /\ withdrawals' = withdrawals
                         /\ users' = users
       ]_vars

\* C10 witness: a withdrawal was answered 409 because its number was taken by
\* a committed withdrawal, and the books still balance.
WithdrawConflictReached ==
    \E r \in Reqs :
        /\ req[r].pc = "done" /\ req[r].op = "Withdraw"
        /\ req[r].code = StatusConflict /\ req[r].err = "unique"
        /\ withdrawals # {}
        /\ \A u \in users : u.accrual + Withdrawn(u.userid) = Awarded(u.userid)

\* The request bodies that parse and pass the Luhn check.
ValidBodies == {body \in OrderBodies : ~ParseInt(body).err /\ ValidOrder(ParseInt(body).val)}

\* C11: a withdrawal with a Luhn-valid number by a user whose balance is 0,
\* or for a sum above the balance, is answered 402; and every step that
\* answers 402 leaves users, orders and withdrawals as they were.
InsufficientFundsRejected ==
    [][\A r \in Reqs :
         req'[r] # req[r]
         => /\ Free(r)
               => \A u \in Registered :
                     LET balance == BalanceIn(users, u)
                     IN  \A sum \in {x \in Sums : balance = 0 \/ x > balance},
                            body \in ValidBodies :
                            HandlerAccrualWithdrawCheck(r, u, body, sum, TRUE, FALSE)
                            => /\ req'[r].pc = "done"
                               /\ req'[r].code = StatusPaymentRequired
            /\ req'[r].code = StatusPaymentRequired => ledger' = ledger
    ]_vars

\* C11 witness: a user whose balance a committed withdrawal has brought to 0
\* stands next to a request that was answered 402.
PaymentRequiredReached ==
    /\ \E r \in Reqs : /\ req[r].pc = "done" /\ req[r].op = "Withdraw"
                       /\ req[r].code = StatusPaymentRequired
    /\ \E u \in users : u.accrual = 0 /\ Withdrawn(u.userid) > 0

\* C12: a withdrawal with a Luhn-valid number and 0 < sum <= balance goes on
\* to the transaction, and the transaction, when the number is unused and no
\* statement fails, answers 200, lowers the user's balance by exactly sum and
\* raises the user's withdrawn total by exactly sum.
WithdrawalApplied ==
    [][\A r \in Reqs :
         req'[r] # req[r]
         => /\ Free(r)
               => \A u \in Registered, body \in ValidBodies, sum \in Sums :
                     (/\ 0 < sum /\ sum <= BalanceIn(users, u)
                      /\ HandlerAccrualWithdrawCheck(r, u, body, sum, TRUE, FALSE))
                     => /\ req'[r].pc = "withdraw"
                        /\ req'[r].user = u
                        /\ req'[r].number = body
                        /\ req'[r].sum = sum
            /\ (/\ req[r].pc = "withdraw"
                /\ req[r].sum > 0
                /\ ~(\E x \in withdrawals : x.number = req[r].number)
                /\ HandlerAccrualWithdrawTx(r, FALSE))
               => /\ req'[r].pc = "done"
                  /\ req'[r].code = StatusOK
                  /\ BalanceIn(users', req[r].user)
                        = BalanceIn(users, req[r].user) - req[r].sum
                  /\ SumOf({w \in withdrawals' : w.userid = req[r].user}, "sum")
                        = Withdrawn(req[r].user) + req[r].sum
    ]_vars

\* C12 witness: half of the award has been withdrawn with a 200: the balance
\* and the withdrawn total are both half of it.
HalfWithdrawnReached ==
    /\ \E r \in Reqs : /\ req[r].pc = "done" /\ req[r].op = "Withdraw"
                       /\ req[r].code = StatusOK
    /\ \E u \in users : /\ 2 * u.accrual = InitialAward
                        /\ 2 * Withdrawn(u.userid) = InitialAward

\* C13: every withdrawal row has sum > 0.
WithdrawalSumPositive == \A w \in withdrawals : w.sum > 0

\* The submitted bodies that do not parse as a decimal integer or fail the
\* Luhn check.
InvalidBodies ==
    {body \in AdmissionBodies : ParseInt(body).err \/ ~ValidOrder(ParseInt(body).val)}

\* C14: a submission whose body does not parse or fails the Luhn check is
\* answered 422 whether or not the ledger is reachable (OrderGet is not
\* called for it), no step that answers 422 changes a table, and no request
\* goes on to OrderAdd with such a body.
InvalidNumberRejected ==
    [][\A r \in Reqs :
         req'[r] # req[r]
         => /\ Free(r)
               => \A u \in Registered, body \in InvalidBodies, fail \in BOOLEAN :
                     HandlerOrderAddGet(r, u, body, fail)
                     => /\ req'[r].pc = "done"
                        /\ req'[r].code = StatusUnprocessableEntity
            /\ req'[r].code = StatusUnprocessableEntity => ledger' = ledger
            /\ req'[r].pc = "orderAdd" => req'[r].number \notin InvalidBodies
    ]_vars

\* C14 witness: a submission has been answered 422 and the orders hold no
\* number that is not valid, while a valid one has been admitted.
UnprocessableReached ==
    /\ \E r \in Reqs : /\ req[r].pc = "done" /\ req[r].op = "OrderAdd"
                       /\ req[r].code = StatusUnprocessableEntity
    /\ orders # {}
    /\ \A o \in orders : o.number \notin InvalidBodies

\* C15: every stored order number is a non-empty string of decimal digits,
\* with no sign, that satisfies the Luhn check.
StoredNumbersUnsignedLuhn ==
    \A o \in orders :
        /\ o.number # <<>>
        /\ \A i \in 1..Len(o.number) : IsDigit(o.number[i])
        /\ ValidOrder(DecVal(o.number))

\* The decimal digits of a small natural number, most significant first.
RECURSIVE IntDigits(_)
IntDigits(n) == IF n < 10 THEN <<n>> ELSE Append(IntDigits(n \div 10), n % 10)

\* The decimal digits of a non-negative int64.
DigitsOf(number) ==
    IF number.hi = 0 THEN IntDigits(number.lo)
    ELSE IntDigits(number.hi) \o Tail(IntDigits(LimbBase + number.lo))

\* The reference Luhn sum of a digit string: every second digit from the
\* right is doubled, a doubled digit above 9 is replaced by the sum of its
\* two decimal digits, and all digits are added.
RECURSIVE ReferenceLuhnSum(_, _)
ReferenceLuhnSum(ds, k) ==
    IF k > Len(ds) THEN 0
    ELSE LET d       == ds[Len(ds) + 1 - k]
             doubled == IF 2 * d > 9 THEN ((2 * d) \div 10) + ((2 * d) % 10) ELSE 2 * d
         IN  (IF k % 2 = 0 THEN doubled ELSE d) + ReferenceLuhnSum(ds, k + 1)

\* C16: on every non-negative number called, ValidOrder answers true exactly
\* when the reference Luhn sum of its digits is divisible by 10, on every
\* call; it answers true for 2377225624 and false for 2377225625.
ValidOrderAgreesWithReference ==
    luhnCall.calls > 0
    => /\ luhnCall.result = (ReferenceLuhnSum(DigitsOf(luhnCall.number), 1) % 10 = 0)
       /\ luhnCall.number = Int64(FALSE, 23772, 25624) => luhnCall.result
       /\ luhnCall.number = Int64(FALSE, 23772, 25625) => ~luhnCall.result

\* C16 witness: ValidOrder has been called MaxCalls times on 2377225624 and
\* its answer is true.
ValidOrderCalledTwice ==
    /\ luhnCall.calls = MaxCalls
    /\ luhnCall.number = Int64(FALSE, 23772, 25624)
    /\ luhnCall.result

\* C17: the pair (current, withdrawn) that BalanceGet returns is the pair
\* (balance, sum of withdrawals) of one single committed ledger state.  With
\* withdrawals as the only writers every committed state of a user has
\* balance + withdrawn = awarded, so every returned pair has that sum too.
BalanceGetOneSnapshot ==
    \A r \in Reqs :
        (req[r].pc = "done" /\ req[r].op = "BalanceGet" /\ req[r].code = StatusOK)
        => \E u \in users :
              req[r].body[1].current + req[r].body[1].withdrawn = Awarded(u.userid)

\* The rows of a listing, as a set.
ListedRows(body) == {body[i] : i \in 1..Len(body)}

\* C18: a successful OrdersGet returns exactly the caller's orders, each
\* once, in ascending order of uploaded_at, and a successful WithdrawalsGet
\* exactly the caller's withdrawals, each once, in ascending order of
\* processed_at; no row of another user is in either.
ListingsOwnAndSorted ==
    [][\A r \in Reqs :
         (req'[r] # req[r] /\ req'[r].code = StatusOK /\ req'[r].err = "")
         => LET body == req'[r].body
                u    == req'[r].user
            IN  /\ req'[r].op = "OrdersGet"
                   => /\ ListedRows(body) = {o \in orders : o.userid = u}
                      /\ Len(body) = Cardinality(ListedRows(body))
                      /\ \A i \in 1..Len(body), j \in 1..Len(body) :
                            i < j => body[i].uploaded <= body[j].uploaded
                /\ req'[r].op = "WithdrawalsGet"
                   => /\ ListedRows(body) = {w \in withdrawals : w.userid = u}
                      /\ Len(body) = Cardinality(ListedRows(body))
                      /\ \A i \in 1..Len(body), j \in 1..Len(body) :
                            i < j => body[i].processed <= body[j].processed
    ]_vars

\* C18 witness: one caller has been given two orders of different
\* uploaded_at, oldest first, while another user holds an order too, and a
\* caller has been given two withdrawals of different processed_at.
SortedListingsReached ==
    \E r1 \in Reqs, r2 \in Reqs :
        /\ req[r1].pc = "done" /\ req[r1].op = "OrdersGet"
        /\ Len(req[r1].body) = 2
        /\ req[r1].body[1].uploaded < req[r1].body[2].uploaded
        /\ \E o \in orders : o.userid # req[r1].user
        /\ req[r2].pc = "done" /\ req[r2].op = "WithdrawalsGet"
        /\ Len(req[r2].body) = 2
        /\ req[r2].body[1].processed < req[r2].body[2].processed

\* C19: registering a userid that is already in users is answered 409 and
\* leaves the users table, and so the stored password hash and balance, as
\* it was; and no step removes a user or changes a stored password hash.
ExistingUserKept ==
    [][/\ \A u \in users : \E v \in users' : /\ v.userid = u.userid
                                             /\ v.password = u.password
       /\ \A r \in Reqs :
             (req'[r] # req[r] /\ Free(r))
             => \A u \in Registered, p \in RegisterPasswords :
                   HandlerUserAdd(r, u, p)
                   => /\ req'[r].code = StatusConflict
                      /\ users' = users
    ]_vars

\* C19 witness: a registration was answered 409 while a user registered with
\* the first password still holds that hash and a balance above 0, and another
\* user has been registered with the second password.
RegisterConflictReached ==
    /\ \E r \in Reqs : /\ req[r].pc = "done" /\ req[r].op = "UserAdd"
                       /\ req[r].code = StatusConflict
    /\ \E u \in users : u.accrual > 0 /\ u.password = HashPassword("p")
    /\ \E u \in users : u.password = HashPassword("q")

\* C20: GET /api/user/orders answers 500 whenever the ledger read of the
\* caller's orders failed, and 200 only when it succeeded.
OrdersGetFailureIs500 ==
    \A r \in Reqs :
        (req[r].pc = "done" /\ req[r].op = "OrdersGet")
        => /\ req[r].err # "" => req[r].code = StatusInternalServerError
           /\ req[r].code = StatusOK => req[r].err = ""

\* C21: a claim is one step.  It hands the dispatcher exactly the orders
\* that were NEW or PROCESSING, each once and as PROCESSING, leaves each of
\* them PROCESSING in the table, and changes nothing else: no INVALID or
\* PROCESSED order, no owner, accrual or uploaded_at, no user row and no
\* withdrawal row.
ClaimIsOneStep ==
    [][(ticker.pc = "wait" /\ ticker' # ticker)
       => LET claimed == {o \in orders : o.status \in {"NEW", "PROCESSING"}}
              returned == {ticker'.batch[i] : i \in 1..Len(ticker'.batch)}
          IN  /\ Len(ticker'.batch) = Cardinality(claimed)
              /\ returned = {[userid |-> o.userid, number |-> o.number,
                              status |-> "PROCESSING", accrual |-> o.accrual,
                              uploaded |-> o.uploaded] : o \in claimed}
              /\ orders' = (orders \ claimed) \cup returned
              /\ \A o \in orders : o.status \in {"INVALID", "PROCESSED"} => o \in orders'
              /\ users' = users
              /\ withdrawals' = withdrawals
      ]_vars

ClaimedBatchReached ==
    /\ ticker.pc = "send"
    /\ Len(ticker.batch) = 2
    /\ \A n \in {<<"1", "8">>, <<"2", "6">>} :
          \E o \in orders : o.number = n /\ o.status = "PROCESSING"
    /\ \E o \in orders : o.status = "INVALID"
    /\ \E o \in orders : o.status = "PROCESSED" /\ o.accrual = InitialAward

\* C22: an order a worker still holds is not handed out again by a claim,
\* and no two workers hold the same order at the same time.
OrderClaimedOnce ==
    [][/\ (ticker.pc = "wait" /\ ticker' # ticker)
          => \A i \in 1..Len(ticker'.batch), w \in Workers :
                wk[w].order.number # ticker'.batch[i].number
       /\ \A w1, w2 \in Workers :
             (w1 # w2 /\ wk'[w1].order # NoOrder)
             => wk'[w1].order.number # wk'[w2].order.number
      ]_vars

\* C23: once the outer context is cancelled, the dispatcher task and every
\* worker return and OrderDispatcher returns: whenever none of them can take
\* another step, all of them have returned.
CancelledDispatcherReturns ==
    (ctx = "done" /\ egErr = "" /\ ~ENABLED NextDispatcher)
    => /\ ticker.pc = "returned"
       /\ \A w \in Workers : wk[w].pc = "returned"
       /\ dispatcher = "returned"

\* C24: once a task of the accrual error group has failed, its siblings
\* return and OrderDispatcher returns the error to the process-level group:
\* whenever none of them can take another step, all have returned and the
\* context of Start is cancelled.
FailedGroupReturnsError ==
    (egErr # "" /\ ~ENABLED NextGroupFailure)
    => /\ ticker.pc = "returned"
       /\ \A w \in Workers : wk[w].pc = "returned"
       /\ dispatcher = "returned"
       /\ ctx = "done"

\* C25: the ledger pool is closed only after the graceful shutdown of the
\* HTTP server has returned, and no request handler that is still in flight
\* finds the pool closed.
PoolClosedAfterServer ==
    pool = "closed"
    => /\ srv = "closed"
       /\ \A r \in Reqs : Free(r)

\* C26: a worker whose Accrual call ends without a 200 and without a 429
\* goes back to the channel and writes nothing: no order, user or withdrawal
\* row changes, so the order keeps its status and accrual, and as long as it
\* is PROCESSING the next claim returns it again.
AbandonedOrderUntouched ==
    [][\A w \in Workers :
         (wk[w].pc = "fetch" /\ wk'[w].pc = "recv")
         => /\ ledger' = ledger
            /\ wk'[w].order = NoOrder
            /\ \A o \in orders' :
                  (o.number = wk[w].order.number /\ o.status = "PROCESSING")
                  => o \in DBClaimRows(orders')
      ]_vars

AbandonedOrderReached ==
    /\ \A w \in Workers : wk[w].pc = "recv"
    /\ ticker.pc = "wait"
    /\ inputCh = <<>>
    /\ \E o \in orders : o.number = <<"1", "8">> /\ o.status = "PROCESSING"

\* C27: a worker that gets a 429 whose Retry-After header is absent or is
\* not an integer sets BackPressure and goes to sleep holding the same order.
RateLimitedWithoutHeaderSleeps ==
    [][\A w \in Workers :
         \A resp \in {r \in Responses429 : r.header \in {"", "junk"}} :
            WorkerFetch(w, resp)
            => /\ RetryFlag'
               /\ wk'[w].pc = "sleep429"
               /\ wk'[w].order = wk[w].order
      ]_vars

\* C28: a worker that gets a 429 for an order keeps that order: it takes no
\* other order from the channel until it has fetched the same order again,
\* and a 200 that follows is applied to that order.
RateLimitedOrderRetried ==
    [][\A w \in Workers :
         /\ \A resp \in Responses429 :
               WorkerFetch(w, resp)
               => /\ wk'[w].order = wk[w].order
                  /\ wk'[w].pc # "recv"
         /\ wk[w].pc \in {"sleep429", "slept429"}
            => /\ wk'[w].order = wk[w].order
               /\ wk'[w].pc \in {"sleep429", "slept429", "fetch"}
         /\ (wk[w].pc = "fetch" /\ wk'[w].pc = "update")
            => wk'[w].order.number = wk[w].order.number
      ]_vars

\* C29: a worker that has taken an order and reads BackPressure as set
\* issues no Fetch for it; it leaves its sleep loop for the Fetch only in a
\* step in which it reads BackPressure as cleared, still holding that order.
\* A Fetch is only ever begun after such a read, or as the retry of the
\* worker's own 429.
FetchWaitsForBackPressure ==
    [][\A w \in Workers :
         /\ (wk[w].pc = "check" /\ RetryFlag) => wk'[w].pc \in {"check", "waitFlag"}
         /\ wk[w].pc = "waitFlag"
            => \/ wk'[w] = wk[w]
               \/ /\ ~RetryFlag
                  /\ wk'[w].pc = "fetch"
                  /\ wk'[w].order = wk[w].order
         /\ (wk[w].pc # "fetch" /\ wk'[w].pc = "fetch")
            => \/ wk[w].pc \in {"check", "waitFlag"} /\ ~RetryFlag
               \/ wk[w].pc = "slept429"
      ]_vars

WaitingForBackPressureReached ==
    \E w, v \in Workers :
        /\ wk[w].pc = "waitFlag"
        /\ wk[w].order # NoOrder
        /\ wk[v].pc = "sleep429"
        /\ RetryFlag

\* C30: whenever the stored status of an order changes, the change is
\* NEW -> PROCESSING, PROCESSING -> PROCESSED or PROCESSING -> INVALID; no
\* order is removed, moved back to NEW or moved out of INVALID or PROCESSED.
StatusTransitionsPermitted ==
    [][\A o \in orders :
         \E o2 \in orders' :
            /\ o2.number = o.number
            /\ \/ o2.status = o.status
               \/ o.status = "NEW" /\ o2.status = "PROCESSING"
               \/ o.status = "PROCESSING" /\ o2.status \in {"PROCESSED", "INVALID"}
      ]_vars

\* C31: a worker applying a result calls UserAddAccrual only after
\* UpdateOrder and only for an accrual above zero, and no step of the accrual
\* pipeline lowers a user's balance.
AccrualNeverDebits ==
    [][/\ \A w \in Workers :
             wk'[w].pc = "credit"
             => /\ wk[w].pc \in {"update", "credit"}
                /\ wk'[w].order.accrual > 0
       /\ \A u \in users :
             \E u2 \in users' : u2.userid = u.userid /\ u2.accrual >= u.accrual
      ]_vars

\* C32: of the submissions of one number that are all past the pre-read, the
\* insert that finds no row adds the one row and is answered 202, every insert
\* that finds the row is answered 409 and adds nothing, and the number never
\* has a second row.
RacingInsertsOneWinner ==
    [][\A r \in Reqs :
         (req[r].pc = "orderAdd" /\ req'[r].pc = "done")
         => LET n == req[r].number
                taken == \E o \in orders : o.number = n
            IN  /\ req'[r].err # "db"
                   => /\ ~taken => /\ req'[r].code = StatusAccepted
                                   /\ orders' = orders \cup {NewOrder(req[r].user, n)}
                      /\ taken => /\ req'[r].code = StatusConflict
                                  /\ orders' = orders
                /\ Cardinality({o \in orders' : o.number = n}) <= 1
      ]_vars

\* C32 witness: two submissions of one number both passed the pre-read; one
\* insert was answered 202 and the other was rejected by the primary key.
RacingInsertsAnswered ==
    \E r1 \in Reqs, r2 \in Reqs :
        /\ req[r1].pc = "done" /\ req[r1].op = "OrderAdd" /\ req[r1].code = StatusAccepted
        /\ req[r2].pc = "done" /\ req[r2].op = "OrderAdd"
        /\ req[r2].code = StatusConflict /\ req[r2].err = "unique"
        /\ Cardinality(orders) = 1

\* C33: every row of orders keeps its number, its owner and its upload time
\* in every step; the claim and the update of a result change nothing of a
\* row but its status and its accrual.
OrderIdentityFrozen ==
    [][\A o \in orders :
         \E o2 \in orders' :
             /\ o2.number = o.number
             /\ o2.userid = o.userid
             /\ o2.uploaded = o.uploaded
      ]_vars

\* C33 witness: the order admitted as NEW has been claimed and then settled
\* as INVALID by a worker's update.
ClaimedOrderSettled ==
    /\ \E o \in orders : o.number = <<"1", "8">> /\ o.status = "INVALID"
    /\ \E o \in ClaimOrders : o.number = <<"1", "8">> /\ o.status = "NEW"

\* C34: the status and the accrual a worker goes on to apply are those of the
\* 200 answer it has just received for the order, the accrual being 0 when the
\* answer carries no accrual field, whatever the worker received before.
AppliedResultIsAnswer ==
    [][\A w \in Workers :
         (wk[w].pc = "fetch" /\ wk'[w].pc = "update")
         => \E resp \in Responses200 :
               /\ WorkerFetch(w, resp)
               /\ wk'[w].order.status = resp.status
               /\ wk'[w].order.accrual = IF resp.hasAccrual THEN resp.accrual ELSE 0
      ]_vars

\* C35: the accrual of an order is added to its owner's balance at most once,
\* whatever the interleaving of claims and workers: with nothing withdrawn, no
\* balance exceeds the sum of the accruals stored on the owner's orders.
OrderCreditedOnce ==
    \A u \in users : u.accrual <= Awarded(u.userid)

\* C36: BackPressure is set only while some worker is between its own
\* rf.Store(true) and rf.Store(false); when no worker is in its rate-limit
\* sleep the flag is cleared.
BackPressureHasSleeper ==
    RetryFlag => \E w \in Workers : wk[w].pc \in {"sleep429", "slept429"}

\* C36 witness: the flag is set and the one worker that set it has finished
\* its sleep and is about to clear it.
LastSleeperAboutToClear ==
    /\ RetryFlag
    /\ \E w \in Workers :
          /\ wk[w].pc = "slept429"
          /\ \A v \in Workers \ {w} : wk[v].pc \notin {"sleep429", "slept429"}

\* C37: while the context of Start is not cancelled, the dispatcher is never
\* blocked for good on the channel and an order that is NEW is never left
\* without a tick to claim it: in no such state have all tasks of the poller
\* come to a stop.
DispatcherNeverBlocked ==
    (/\ ctx = "live"
     /\ \/ ticker.pc = "send"
        \/ \E o \in orders : o.status = "NEW")
    => ENABLED NextGroupFailure

\* C38: the blank userid of the order OrderGet returns for an unknown number
\* is the id of no registered user: a registered user, the one with the empty
\* login included, who submits a number they already own is answered 200 by
\* the pre-read.
OwnerResubmissionAnswered ==
    [][\A r \in Reqs, o \in orders :
         (o.userid \in Registered /\ HandlerOrderAddGet(r, o.userid, o.number, FALSE))
         => /\ req'[r].pc = "done"
            /\ req'[r].code = StatusOK
      ]_vars

\* C39: a step of a withdrawal request of user A leaves every order, every
\* stored withdrawal and the row of every other user as they were; the only
\* row it may add to withdrawals is owned by A, whatever number and sum the
\* body carries.
WithdrawalTouchesCallerOnly ==
    [][\A r \in Reqs :
         (req'[r] # req[r] /\ req'[r].op = "Withdraw")
         => /\ Free(r) => ledger' = ledger
            /\ req[r].pc = "withdraw"
               => /\ orders' = orders
                  /\ withdrawals \subseteq withdrawals'
                  /\ \A x \in withdrawals' \ withdrawals : x.userid = req[r].user
                  /\ {u.userid : u \in users'} = Registered
                  /\ \A u \in users : u.userid # req[r].user => u \in users'
      ]_vars

\* C39 witness: a withdrawal of the funded user has been carried out next to
\* another registered user, whose row is as it was.
CallerDebitedNextToOther ==
    /\ \E r \in Reqs : req[r].pc = "done" /\ req[r].op = "Withdraw" /\ req[r].code = StatusOK
    /\ \E x \in withdrawals : x.userid = AllUsers[1] /\ x.sum > 0
    /\ \E u \in users : u.userid = AllUsers[1] /\ u.accrual < InitialAward
    /\ \E u \in FundedUsers : u.userid = AllUsers[2] /\ u \in users

\* C40: when UpdateOrder fails, OrderUpdate does not go on to
\* UserAddAccrual: the step changes no order and no balance, and the worker
\* drops the order and is back at its receive, neither returned nor about to
\* credit.
UpdateFailureSkipsCredit ==
    [][\A w \in Workers :
         OrderUpdateStatus(w, TRUE)
         => /\ orders' = orders
            /\ users' = users
            /\ wk'[w].pc = "recv"
            /\ wk'[w].order = NoOrder
            /\ egErr' = egErr
      ]_vars

\* C40 witness: a worker that was answered with an award is back at its
\* receive while the order is still PROCESSING with no accrual and the balance
\* is still 0: its UpdateOrder failed.
UpdateFailureSurvived ==
    /\ \E w \in Workers : wk[w].pc = "recv" /\ wk[w].ar.Accrual = 2
    /\ \A o \in orders : o.status = "PROCESSING" /\ o.accrual = 0
    /\ \A u \in users : u.accrual = 0

====
